---- MODULE Spec2Model ----
(***************************************************************************)
(* Model of chicken_door.ino: a light-driven coop door controller with a   *)
(* manual override button, a lock servo and a timed motor run.             *)
(*                                                                         *)
(* Time.  The sketch stores millis() timestamps and only ever reads them   *)
(* in differences millis() - stamp.  The model keeps each stamp as that    *)
(* difference (the time elapsed since the stamp was taken, in ms):         *)
(*     holdElapsed       = millis() - startHoldTime                        *)
(*     lightCheckElapsed = millis() - lastLightCheck                       *)
(*     doorWaitElapsed   = millis() - lastDoorMotorRunTime                 *)
(*     doorRunElapsed    = millis() - doorRunningStartTime                 *)
(*     passElapsed       = millis() - currentTime   (loop()'s local)       *)
(* An assignment stamp = millis() sets the difference to 0, every delay()  *)
(* and every gap between two loop() passes adds to all of them.  A         *)
(* difference stops growing at the largest value any comparison of the     *)
(* sketch can tell apart.  All constants are the sketch's, in ms.          *)
(*                                                                         *)
(* loop() is called back to back.  The model runs one pass per TickMs, so   *)
(* a deadline that falls between two passes is acted on at the later one;  *)
(* the pass after setup() and the pass after stopDoorMotor() follow at      *)
(* once.  The button changes level only right after a pass that is         *)
(* followed by a gap, so that while the door is idle the hold timer and    *)
(* the true length of a press agree at every pass.  Serial output takes    *)
(* no time.                                                                *)
(* int is 16 bits wide (AVR), unsigned long 32 bits.                       *)
(***************************************************************************)
EXTENDS Integers, Sequences, FiniteSets, TLC

VARIABLES
  pc,                \* position in setup()/loop()/startDoorMotor()/stopDoorMotor()
  ret,               \* where startDoorMotor() returns to
  button,            \* level of buttonPin (active low)
  holdElapsed,       \* millis() - startHoldTime
  doorRunning,
  doorRunElapsed,    \* millis() - doorRunningStartTime
  doorWaitElapsed,   \* millis() - lastDoorMotorRunTime
  currentLightState,
  lightCheckElapsed, \* millis() - lastLightCheck
  newStateCount,
  passElapsed,       \* millis() - currentTime
  lockPos,           \* position last written to the lock servo
  doorPin,
  relayPowerPin,
  ledPins,
  \* history variables (not read by the program)
  pressElapsed,      \* how long the button has been down without a break
  sample,            \* classification sampled by the automatic path in this pass, or "none"
  lastSample,        \* classification of the latest automatic sample
  sameRun,           \* how many latest automatic samples in a row had that classification
  streak,            \* how many latest automatic samples in a row disagreed with the
                     \* committed state, since the latest commit or manual trigger
  sinceStop,         \* time since the latest stopDoorMotor() finished, -1 before the first
  sinceTrigger,      \* time since the latest manual trigger, -1 before the first
  uptime,            \* millis(): the time since power-up
  \* isDoorMotorDone() on plain timestamps
  qRunning,          \* doorRunning
  qStart,            \* doorRunningStartTime
  qNow,              \* millis()
  qAsked,            \* isDoorMotorDone() has been called at qNow
  qDone,             \* what that call returned
  qWasDone,          \* an earlier call returned true in this run
  \* a function of the sketch evaluated on its own
  calcArgs,          \* its arguments
  calcDone,          \* it has been evaluated
  calcOut,           \* what it returned
  \* the surroundings
  steady             \* "no", or the class every sample has from now on, with the
                     \* button left alone

vars == <<pc, ret, button, holdElapsed, doorRunning, doorRunElapsed,
          doorWaitElapsed, currentLightState, lightCheckElapsed, newStateCount,
          passElapsed, lockPos, doorPin, relayPowerPin, ledPins,
          pressElapsed, sample, lastSample, sameRun, streak, sinceStop,
          sinceTrigger, uptime, qRunning, qStart, qNow, qAsked, qDone, qWasDone,
          calcArgs, calcDone, calcOut, steady>>

progVars == <<pc, ret, button, holdElapsed, doorRunning, doorRunElapsed,
          doorWaitElapsed, currentLightState, lightCheckElapsed, newStateCount,
          passElapsed, lockPos, doorPin, relayPowerPin, ledPins,
          pressElapsed, sample, lastSample, sameRun, streak, sinceStop,
          sinceTrigger, uptime>>

queryVars == <<qRunning, qStart, qNow, qAsked, qDone, qWasDone>>

calcVars == <<calcArgs, calcDone, calcOut>>

-----------------------------------------------------------------------------
(* Bounds of the model *)

\* time between the starts of two successive loop() passes, in ms
TickMs == 1000

\* the confirmation windows and sampling intervals newStateThreshold is
\* evaluated for
MaxWindowMinutes == 5
MaxDelaySeconds == 40

\* the cooldown times minDoorWaitTime is evaluated for
MaxWaitHours == 12

\* latest value of millis() at which isDoorMotorDone() is called on its own
MaxQueryTime == 20002

-----------------------------------------------------------------------------
(* Configuration and constants of the sketch *)

lightCheckDelaySeconds == 15
consecutiveLightCheckMinutes == 5
doorRunTimeSeconds == 20
lightStateThreshold == 550
darkStateThreshold == 250
unlockDoorPos == 75
lockDoorPos == 150
holdDelay == 2000
minDoorWaitTimeHours == 10
lightAverage == 5
AnalogMax == 1023
ServoAttachDelay == 15
ServoMoveDelay == 500
RelaySettleDelay == 15

\* width of int on the target
IntBits == 16

\* a value stored in an int: two's complement wrap-around
ToInt(x) == ((x + 2^(IntBits - 1)) % 2^IntBits) - 2^(IntBits - 1)

\* an int converted to unsigned long: a negative value has 2^32 added to it
ToULong(x) == IF x >= 0 THEN x ELSE x + 2^32

\* lines 37 and 57: seconds * 1000 as an int
millisOfSeconds(seconds) == ToInt(seconds * 1000)

doorRunTime == millisOfSeconds(doorRunTimeSeconds)

\* line 39: hours * 60 * 60 * 1000, each product an int
minDoorWaitProduct(hours) == ToInt(ToInt(ToInt(hours * 60) * 60) * 1000)

\* line 39: the product converted to unsigned long
minDoorWaitTimeOf(hours) == ToULong(minDoorWaitProduct(hours))

minDoorWaitTime == minDoorWaitTimeOf(minDoorWaitTimeHours)

lightCheckDelay == millisOfSeconds(lightCheckDelaySeconds)

\* the quotient of two integers in C: rounded towards zero
Quotient(a, b) ==
  LET q == (IF a < 0 THEN -a ELSE a) \div (IF b < 0 THEN -b ELSE b)
  IN IF (a < 0) = (b < 0) THEN q ELSE -q

\* lines 57-58 for a configuration of minutes and seconds:
\* ceil((minutes * 60000) / (seconds * 1000)).  seconds * 1000 is an int;
\* 60000 does not fit an int, so the product and the quotient are long
\* integers, ceil is applied to a whole number and the result is stored in
\* an int
newStateThresholdOf(minutes, seconds) ==
  ToInt(Quotient(minutes * 60000, ToInt(seconds * 1000)))

\* line 58
newStateThreshold ==
  newStateThresholdOf(consecutiveLightCheckMinutes, lightCheckDelaySeconds)

\* playSuccessTone(): four tones, each followed by a delay of its length
SuccessToneTime == 250 + 250 + 250 + 500

\* unlockDoor() and lockDoor(): attach, delay(15), write, delay(500), detach
ServoMoveTime == ServoAttachDelay + ServoMoveDelay

LightStates == {"LIGHT", "DARK", "NEUTRAL"}
LEDs == {"GREEN", "YELLOW", "RED"}
Levels == {"LOW", "HIGH"}

\* analogRead() results the model draws from: both sides of both thresholds
RawReadings == {0, AnalogMax - lightStateThreshold, AnalogMax - lightStateThreshold + 1,
                AnalogMax - darkStateThreshold - 1, AnalogMax - darkStateThreshold, AnalogMax}

getLightStateStrict(lightValue, dark, light) ==
  IF lightValue < dark THEN "DARK"
  ELSE IF lightValue > light THEN "LIGHT"
  ELSE "NEUTRAL"

\* lines 148-156 for thresholds dark and light
getLightStateOf(lightValue, dark, light) ==
  IF lightValue <= dark THEN "DARK"
  ELSE IF lightValue >= light THEN "LIGHT"
  ELSE "NEUTRAL"

getLightState(lightValue) ==
  getLightStateOf(lightValue, darkStateThreshold, lightStateThreshold)

readLightSensor(raw) == AnalogMax - raw

unlockDoorWritesLock == lockDoorPos

\* the position unlockDoor() and lockDoor() write to the servo
unlockDoor == unlockDoorPos

lockDoorWritesUnlock == unlockDoorPos

lockDoor == lockDoorPos

lightLedKeepsOthers(led) == [ledPins EXCEPT ![led] = "HIGH"]

\* lines 227-243
lightLed(led) == [l \in LEDs |-> IF l = led THEN "HIGH" ELSE "LOW"]

DoorMotorDoneAtOnce(running, elapsed) == running

DoorMotorDoneStrict(running, elapsed) == running /\ elapsed > doorRunTime

\* line 184
DoorMotorDone(running, elapsed) == running /\ elapsed >= doorRunTime

isDoorMotorDone == DoorMotorDone(doorRunning, doorRunElapsed)

\* lines 142-144: stopDoorMotor() is called, or the pass ends
AfterPoll == IF doorRunning /\ isDoorMotorDone THEN "stop_motor" ELSE "wait"

-----------------------------------------------------------------------------
(* Passage of time *)

Sat(x, cap) == IF x > cap THEN cap ELSE x

\* d ms pass; the stamps named in taken are assigned millis() at the end.
\* currentTime is read again only after the automatic path's call of
\* startDoorMotor() (lines 118 and 133): passElapsed is kept for that call only.
Elapse(d, taken) ==
  /\ holdElapsed' = IF "startHoldTime" \in taken THEN 0
                    ELSE Sat(holdElapsed + d, holdDelay + 1)
  /\ doorRunElapsed' = IF "doorRunningStartTime" \in taken THEN 0
                       ELSE Sat(doorRunElapsed + d, doorRunTime)
  /\ doorWaitElapsed' = Sat(doorWaitElapsed + d, minDoorWaitTime)
  /\ lightCheckElapsed' = Sat(lightCheckElapsed + d, lightCheckDelay)
  /\ passElapsed' = IF ret = "checked" THEN passElapsed + d ELSE 0
  /\ pressElapsed' = IF button' = "LOW"
                     THEN (IF button = "LOW" THEN Sat(pressElapsed + d, holdDelay + 1)
                           ELSE Sat(d, holdDelay + 1))
                     ELSE 0
  /\ sinceStop' = IF "stop" \in taken THEN 0
                  ELSE IF sinceStop < 0 THEN sinceStop
                  ELSE Sat(sinceStop + d, minDoorWaitTime)
  /\ sinceTrigger' = IF sinceTrigger < 0 THEN sinceTrigger
                     ELSE Sat(sinceTrigger + d, holdDelay + 1)
  /\ uptime' = Sat(uptime + d, minDoorWaitTime)

history == <<sample, lastSample, sameRun, streak>>

clocks == <<holdElapsed, doorRunElapsed, doorWaitElapsed, lightCheckElapsed,
            passElapsed, pressElapsed, sinceStop, sinceTrigger, uptime>>

-----------------------------------------------------------------------------
(* Initial state: the globals as initialised, before setup() *)

InitGlobals ==
  /\ pc = "setup"
  /\ ret = "none"
  /\ holdElapsed = 0
  /\ doorRunning = FALSE
  /\ doorRunElapsed = 0
  /\ doorWaitElapsed = 0
  /\ currentLightState = "NEUTRAL"
  /\ lightCheckElapsed = 0
  /\ newStateCount = 0
  /\ passElapsed = 0
  /\ doorPin = "LOW"
  /\ relayPowerPin = "LOW"
  /\ ledPins = [l \in LEDs |-> "LOW"]
  /\ pressElapsed = 0
  /\ sample = "none"
  /\ lastSample = "none"
  /\ sameRun = 0
  /\ streak = 0
  /\ sinceStop = -1
  /\ sinceTrigger = -1
  /\ uptime = 0

InitQuery ==
  /\ qRunning = FALSE
  /\ qStart = 0
  /\ qNow = 0
  /\ qAsked = FALSE
  /\ qDone = FALSE
  /\ qWasDone = FALSE

InitCalc ==
  /\ steady = "no"
  /\ calcArgs = <<>>
  /\ calcDone = FALSE
  /\ calcOut = 0

\* the button is at either level, the servo wherever it was left
Init ==
  /\ InitGlobals
  /\ button \in Levels
  /\ lockPos \in {lockDoorPos, unlockDoorPos}
  /\ InitQuery
  /\ InitCalc

-----------------------------------------------------------------------------
(* setup() *)

setup ==
  /\ pc = "setup"
  /\ lockPos' = lockDoor
  /\ \E r1, r2, r3, r4, r5 \in RawReadings :
       currentLightState' =
         getLightState((readLightSensor(r1) + readLightSensor(r2) + readLightSensor(r3)
                        + readLightSensor(r4) + readLightSensor(r5)) \div lightAverage)
  /\ ledPins' = lightLed("GREEN")
  /\ button' = button
  /\ Elapse(ServoMoveTime, {})
  /\ pc' = "loop"
  /\ UNCHANGED <<ret, doorRunning, newStateCount, doorPin, relayPowerPin, history>>
  /\ UNCHANGED <<queryVars, calcVars, steady>>

-----------------------------------------------------------------------------
(* Between two passes of loop(): time passes, the button may change level *)

Tick(level) ==
  /\ pc = "wait"
  /\ button' = level
  /\ Elapse(TickMs, {})
  /\ sample' = "none"
  /\ pc' = "loop"
  /\ UNCHANGED <<ret, doorRunning, currentLightState, newStateCount, lockPos,
                 doorPin, relayPowerPin, ledPins, lastSample, sameRun, streak>>
  /\ UNCHANGED <<queryVars, calcVars, steady>>

-----------------------------------------------------------------------------
(* loop(), lines 93-119: the automatic path; with the door running the pass  *)
(* goes straight to lines 142-144                                          *)

lightCheckDueUngated == lightCheckElapsed >= lightCheckDelay

\* line 96: the sampling interval has passed and the cooldown gate is open
lightCheckDue ==
  /\ lightCheckElapsed >= lightCheckDelay
  /\ doorWaitElapsed >= minDoorWaitTime

countsAsNewStateAnyChange(newLightState) == newLightState # currentLightState

\* line 99: the sample counts towards a change of state
countsAsNewState(newLightState) ==
  newLightState # "NEUTRAL" /\ newLightState # currentLightState

countSampleRestarts(newLightState) ==
  IF countsAsNewState(newLightState) THEN 1 ELSE 0

countSampleKeepsCount(newLightState) ==
  IF countsAsNewState(newLightState) THEN newStateCount + 1 ELSE newStateCount

\* lines 99-107: the counter after the sample
countSample(newLightState) ==
  IF countsAsNewState(newLightState) THEN newStateCount + 1 ELSE 0

thresholdReachedAtFirst(count) == count >= 1

thresholdReachedStrict(count) == count > newStateThreshold

\* line 111
thresholdReached(count) == count >= newStateThreshold

\* history of the samples fed to the automatic path
RecordSample(cls, committed, commits) ==
  /\ sample' = cls
  /\ lastSample' = cls
  /\ sameRun' = IF cls = lastSample THEN Sat(sameRun + 1, newStateThreshold) ELSE 1
  /\ streak' = IF commits THEN 0
               ELSE IF cls # "NEUTRAL" /\ cls # committed
                    THEN Sat(streak + 1, newStateThreshold)
                    ELSE 0

LoopLight ==
  /\ pc = "loop"
  /\ button' = button
  /\ IF doorRunning
     THEN /\ pc' = AfterPoll
          /\ UNCHANGED <<ret, currentLightState, newStateCount, ledPins, clocks,
                         sample, lastSample, sameRun, streak>>
     ELSE IF lightCheckDue
     THEN \E raw \in RawReadings :
            LET newLightState == getLightState(readLightSensor(raw))
                count == countSample(newLightState)
            IN /\ ledPins' = IF countsAsNewState(newLightState)
                             THEN lightLed("YELLOW") ELSE lightLed("GREEN")
               /\ RecordSample(newLightState, currentLightState, thresholdReached(count))
               /\ IF thresholdReached(count)
                  THEN /\ currentLightState' = newLightState
                       /\ newStateCount' = 0
                       /\ doorWaitElapsed' = 0
                       /\ passElapsed' = 0
                       /\ pc' = "start_unlock"
                       /\ ret' = "checked"
                       /\ UNCHANGED <<holdElapsed, doorRunElapsed, lightCheckElapsed,
                                      pressElapsed, sinceStop, sinceTrigger, uptime>>
                  ELSE /\ newStateCount' = count
                       /\ lightCheckElapsed' = 0
                       /\ passElapsed' = 0
                       /\ pc' = "button"
                       /\ UNCHANGED <<ret, currentLightState, holdElapsed, doorRunElapsed,
                                      doorWaitElapsed, pressElapsed, sinceStop, sinceTrigger,
                                      uptime>>
     ELSE /\ passElapsed' = 0
          /\ pc' = "button"
          /\ UNCHANGED <<ret, currentLightState, newStateCount, ledPins, holdElapsed,
                         doorRunElapsed, doorWaitElapsed, lightCheckElapsed, pressElapsed,
                         sinceStop, sinceTrigger, uptime, sample, lastSample, sameRun,
                         streak>>
  /\ UNCHANGED <<doorRunning, lockPos, doorPin, relayPowerPin>>
  /\ UNCHANGED <<queryVars, calcVars, steady>>

\* line 118, after startDoorMotor() has returned: lastLightCheck = currentTime
LoopChecked ==
  /\ pc = "checked"
  /\ lightCheckElapsed' = Sat(passElapsed, lightCheckDelay)
  /\ pc' = "button"
  /\ UNCHANGED <<ret, button, holdElapsed, doorRunning, doorRunElapsed, doorWaitElapsed,
                 currentLightState, newStateCount, passElapsed, lockPos, doorPin,
                 relayPowerPin, ledPins, pressElapsed, history, sinceStop, sinceTrigger,
                 uptime>>
  /\ UNCHANGED <<queryVars, calcVars, steady>>

-----------------------------------------------------------------------------
(* loop(), lines 121-139: the manual override; without a trigger the pass   *)
(* goes on to lines 142-144                                                *)

\* line 124
heldLongEnough == holdElapsed > holdDelay

holdTimerKept == holdElapsed

\* line 129: startHoldTime = millis(), nothing is left of the hold
holdTimerRestarted == holdElapsed - holdElapsed

LoopButton ==
  /\ pc = "button"
  /\ button' = button
  /\ IF button = "LOW"
     THEN IF heldLongEnough
          THEN \E raw \in RawReadings :
                 /\ holdElapsed' = holdTimerRestarted
                 /\ currentLightState' = getLightState(readLightSensor(raw))
                 /\ newStateCount' = 0
                 /\ doorWaitElapsed' = Sat(passElapsed, minDoorWaitTime)
                 /\ pc' = "start_unlock"
                 /\ ret' = "poll"
                 /\ streak' = 0
                 /\ sinceTrigger' = 0
          ELSE /\ pc' = AfterPoll
               /\ UNCHANGED <<ret, holdElapsed, currentLightState, newStateCount,
                              doorWaitElapsed, streak, sinceTrigger>>
     ELSE /\ holdElapsed' = 0
          /\ pc' = AfterPoll
          /\ UNCHANGED <<ret, currentLightState, newStateCount, doorWaitElapsed,
                         streak, sinceTrigger>>
  /\ passElapsed' = 0
  /\ UNCHANGED <<doorRunning, doorRunElapsed, lightCheckElapsed, lockPos, doorPin,
                 relayPowerPin, ledPins, pressElapsed, sample, lastSample, sameRun,
                 sinceStop, uptime>>
  /\ UNCHANGED <<queryVars, calcVars, steady>>

-----------------------------------------------------------------------------
(* startDoorMotor(), lines 168-181 *)

\* line 169: unlockDoor()
StartUnlock ==
  /\ pc = "start_unlock"
  /\ lockPos' = unlockDoor
  /\ button' = button
  /\ Elapse(ServoMoveTime, {})
  /\ pc' = "start_tone"
  /\ UNCHANGED <<ret, doorRunning, currentLightState, newStateCount, doorPin,
                 relayPowerPin, ledPins, history>>
  /\ UNCHANGED <<queryVars, calcVars, steady>>

\* lines 174-177: lightLed(RED), playSuccessTone(), doorRunning, doorRunningStartTime
StartTone ==
  /\ pc = "start_tone"
  /\ ledPins' = lightLed("RED")
  /\ button' = button
  /\ Elapse(SuccessToneTime, {"doorRunningStartTime"})
  /\ doorRunning' = TRUE
  /\ pc' = "start_relay"
  /\ UNCHANGED <<ret, currentLightState, newStateCount, lockPos, doorPin,
                 relayPowerPin, history>>
  /\ UNCHANGED <<queryVars, calcVars, steady>>

\* lines 178-179: the relay, then delay(15)
StartRelay ==
  /\ pc = "start_relay"
  /\ relayPowerPin' = "HIGH"
  /\ button' = button
  /\ Elapse(RelaySettleDelay, {})
  /\ pc' = "start_motor"
  /\ UNCHANGED <<ret, doorRunning, currentLightState, newStateCount, lockPos, doorPin,
                 ledPins, history>>
  /\ UNCHANGED <<queryVars, calcVars, steady>>

\* line 180: the motor; then back to the caller
StartMotor ==
  /\ pc = "start_motor"
  /\ doorPin' = "HIGH"
  /\ pc' = ret
  /\ ret' = "none"
  /\ UNCHANGED <<button, doorRunning, currentLightState, newStateCount, lockPos,
                 relayPowerPin, ledPins, clocks, history>>
  /\ UNCHANGED <<queryVars, calcVars, steady>>

-----------------------------------------------------------------------------
(* loop(), lines 142-144 after a manual trigger, and stopDoorMotor(),      *)
(* lines 190-203                                                           *)

LoopPoll ==
  /\ pc = "poll"
  /\ pc' = AfterPoll
  /\ UNCHANGED <<ret, button, doorRunning, currentLightState, newStateCount, lockPos,
                 doorPin, relayPowerPin, ledPins, clocks, history>>
  /\ UNCHANGED <<queryVars, calcVars, steady>>

\* lines 191-192
StopMotor ==
  /\ pc = "stop_motor"
  /\ doorPin' = "LOW"
  /\ relayPowerPin' = "LOW"
  /\ pc' = "stop_lock"
  /\ UNCHANGED <<ret, button, doorRunning, currentLightState, newStateCount, lockPos,
                 ledPins, clocks, history>>
  /\ UNCHANGED <<queryVars, calcVars, steady>>

\* line 199: lockDoor()
StopLock ==
  /\ pc = "stop_lock"
  /\ lockPos' = lockDoor
  /\ button' = button
  /\ Elapse(ServoMoveTime, {})
  /\ pc' = "stop_done"
  /\ UNCHANGED <<ret, doorRunning, currentLightState, newStateCount, doorPin,
                 relayPowerPin, ledPins, history>>
  /\ UNCHANGED <<queryVars, calcVars, steady>>

\* lines 201-202; loop() returns and is called again
StopDone ==
  /\ pc = "stop_done"
  /\ doorRunning' = FALSE
  /\ ledPins' = lightLed("GREEN")
  /\ button' = button
  /\ Elapse(0, {"stop"})
  /\ pc' = "loop"
  /\ UNCHANGED <<ret, currentLightState, newStateCount, lockPos, doorPin,
                 relayPowerPin, history>>
  /\ UNCHANGED <<queryVars, calcVars, steady>>

-----------------------------------------------------------------------------

Next ==
  \/ setup
  \/ \E level \in Levels : Tick(level)
  \/ LoopLight
  \/ LoopChecked
  \/ LoopButton
  \/ StartUnlock
  \/ StartTone
  \/ StartRelay
  \/ StartMotor
  \/ LoopPoll
  \/ StopMotor
  \/ StopLock
  \/ StopDone

Spec == Init /\ [][Next]_vars

\* time advances and loop() keeps being called
SpecLive == Init /\ [][Next]_vars /\ WF_vars(Next)

TypeOK ==
  /\ pc \in {"setup", "wait", "loop", "checked", "button", "poll", "start_unlock",
             "start_tone", "start_relay", "start_motor", "stop_motor", "stop_lock",
             "stop_done"}
  /\ button \in Levels
  /\ doorRunning \in BOOLEAN
  /\ currentLightState \in LightStates
  /\ newStateCount \in 0..newStateThreshold
  /\ lockPos \in {lockDoorPos, unlockDoorPos}
  /\ doorPin \in Levels
  /\ relayPowerPin \in Levels

-----------------------------------------------------------------------------
(* isDoorMotorDone() on its own: runs are started and stopped at times of   *)
(* millis() up to MaxQueryTime and the query is called at any of them      *)

\* the times at which a run is started
QueryStarts == {0, 1}

\* the steps millis() advances by
QueryWaits == {1, doorRunTime - 1}

InitDone ==
  /\ InitGlobals
  /\ button = "HIGH"
  /\ lockPos = lockDoorPos
  /\ InitQuery
  /\ InitCalc

\* lines 176-177
QueryStart ==
  /\ ~qRunning
  /\ qNow \in QueryStarts
  /\ qRunning' = TRUE
  /\ qStart' = qNow
  /\ qAsked' = FALSE
  /\ qWasDone' = FALSE
  /\ UNCHANGED <<qNow, qDone>>
  /\ UNCHANGED <<progVars, calcVars, steady>>

QueryWait(d) ==
  /\ qNow + d <= MaxQueryTime
  /\ qNow' = qNow + d
  /\ qAsked' = FALSE
  /\ UNCHANGED <<qRunning, qStart, qDone, qWasDone>>
  /\ UNCHANGED <<progVars, calcVars, steady>>

\* lines 183-188
Query ==
  /\ ~qAsked
  /\ qAsked' = TRUE
  /\ qDone' = DoorMotorDone(qRunning, qNow - qStart)
  /\ qWasDone' = (qWasDone \/ qDone')
  /\ UNCHANGED <<qRunning, qStart, qNow>>
  /\ UNCHANGED <<progVars, calcVars, steady>>

\* line 201
QueryStop ==
  /\ qRunning
  /\ qRunning' = FALSE
  /\ qAsked' = FALSE
  /\ qWasDone' = FALSE
  /\ UNCHANGED <<qStart, qNow, qDone>>
  /\ UNCHANGED <<progVars, calcVars, steady>>

NextDone ==
  \/ QueryStart
  \/ \E d \in QueryWaits : QueryWait(d)
  \/ Query
  \/ QueryStop

SpecDone == InitDone /\ [][NextDone]_vars

-----------------------------------------------------------------------------
(* The claims *)

AutoCommitted == pc = "start_unlock" /\ ret = "checked"
ManualTriggered == pc = "start_unlock" /\ ret = "poll"

\* C1: startDoorMotor() is never entered while doorRunning is already true
\* (an automatic commit and a button trigger in one pass start the door once).
C1_NonReentrantStart == ~(pc = "start_unlock" /\ doorRunning)

\* C2: the automatic path changes currentLightState only on the sample that
\* completes newStateThreshold consecutive non-NEUTRAL samples differing from
\* the committed state, and then resets newStateCount to 0; a NEUTRAL or
\* agreeing sample changes nothing and restarts the count from zero.
C2_CommitOnlyAtThreshold ==
  [][pc = "loop" =>
       /\ sample' = "none" => currentLightState' = currentLightState
       /\ sample' # "none" =>
            LET disagrees == sample' # "NEUTRAL" /\ sample' # currentLightState
            IN IF disagrees /\ streak = newStateThreshold - 1
               THEN /\ currentLightState' = sample'
                    /\ newStateCount' = 0
                    /\ pc' = "start_unlock"
               ELSE /\ currentLightState' = currentLightState
                    /\ newStateCount' = (IF disagrees THEN streak + 1 ELSE 0)
                    /\ pc' = "button"]_vars

C2_Witness ==
  /\ AutoCommitted
  /\ sample = currentLightState
  /\ newStateCount = 0
  /\ sameRun = newStateThreshold

\* C3: whenever the automatic path commits to a state S, each of the last
\* newStateThreshold samples was classified S.
C3_CommitAfterSameClassRun ==
  AutoCommitted => (lastSample = currentLightState /\ sameRun >= newStateThreshold)

\* C4: a manual trigger fires only when the button has been down without a
\* break for more than holdDelay.
C4_TriggerAfterContinuousHold == ManualTriggered => pressElapsed > holdDelay

\* C5: no automatic commit is decided earlier than minDoorWaitTime after the
\* latest stopDoorMotor() finished.
C5_Cooldown == (AutoCommitted /\ sinceStop >= 0) => sinceStop >= minDoorWaitTime

C5_Witness == AutoCommitted /\ sinceStop >= minDoorWaitTime

\* C6: between two passes of loop(), and after setup(), newStateCount lies in
\* 0 .. newStateThreshold - 1.
C6_CounterRange ==
  pc \in {"wait", "loop"} => newStateCount \in 0 .. (newStateThreshold - 1)

C6_Witness == pc = "wait" /\ newStateCount = newStateThreshold - 1

\* C7: isDoorMotorDone() changes nothing and returns true iff doorRunning and
\* now - doorRunningStartTime >= doorRunTime: false at every now before
\* start + doorRunTime, true from then on, and once it has returned true in a
\* run it returns true until the run is stopped.
C7_IsDoorMotorDone ==
  [][(qAsked' /\ ~qAsked) =>
       /\ qDone' = (qRunning /\ qNow >= qStart + doorRunTime)
       /\ qWasDone => qDone'
       /\ UNCHANGED <<qRunning, qStart, progVars>>]_vars

\* the query at exactly doorRunTime after a start at 1 has returned true
C7_Witness ==
  /\ qAsked
  /\ qRunning
  /\ qStart = 1
  /\ qNow = qStart + doorRunTime
  /\ qDone

\* C8: a manual trigger sets startHoldTime to the trigger time, and fires more
\* than holdDelay after the manual trigger before it.
C8_TriggersRateLimited ==
  [][(pc = "button" /\ pc' = "start_unlock") =>
       /\ holdElapsed' = 0
       /\ sinceTrigger >= 0 => sinceTrigger > holdDelay]_vars

\* the button still down after an earlier manual trigger: the next one is due
C8_Witness ==
  /\ pc = "button"
  /\ button = "LOW"
  /\ holdElapsed > holdDelay
  /\ sinceTrigger > holdDelay

\* C9: with the door idle at the start of the pass, a button down for more
\* than holdDelay triggers (gate open or not) and sets startHoldTime to now,
\* currentLightState to the classification of a fresh reading, newStateCount
\* to 0, lastDoorMotorRunTime to currentTime and starts the door; a button
\* that is up or has been down for holdDelay or less changes none of
\* currentLightState, newStateCount, lastDoorMotorRunTime, doorRunning.
C9_ManualTriggerEffect ==
  [][pc = "button" =>
       /\ (button = "LOW" /\ pressElapsed > holdDelay) =>
            /\ pc' = "start_unlock"
            /\ holdElapsed' = 0
            /\ currentLightState' \in LightStates
            /\ newStateCount' = 0
            /\ doorWaitElapsed' = passElapsed
       /\ (button = "HIGH" \/ pressElapsed <= holdDelay) =>
            /\ pc' # "start_unlock"
            /\ UNCHANGED <<currentLightState, newStateCount, doorWaitElapsed,
                           doorRunning>>]_vars

\* C10 as claimed: after setup() the lock is in the locked position in every
\* state in which the motor output is not energized.
C10_LockedUnlessMotorOn ==
  pc # "setup" => (doorPin = "LOW" => lockPos = lockDoorPos)

\* C10 as amended: after setup() the lock is away from the locked position
\* with the motor output off only inside startDoorMotor() (from unlockDoor()
\* until the motor is switched on) and inside stopDoorMotor() (from the motor
\* being switched off until lockDoor()).
C10_LockedOutsideSequencer ==
  (pc # "setup" /\ doorPin = "LOW" /\ lockPos # lockDoorPos)
     => pc \in {"start_tone", "start_relay", "start_motor", "stop_lock"}

C10_Witness ==
  /\ pc = "loop"
  /\ sinceStop >= 0
  /\ doorPin = "LOW"
  /\ lockPos = lockDoorPos

\* C11: every run is eventually stopped; stopDoorMotor() is entered only with
\* the door running and at least doorRunTime after doorRunningStartTime;
\* doorRunning falls and the motor output is switched off nowhere else; and
\* when stopDoorMotor() has finished the door is not running, motor and relay
\* are off and loop() polls again.
C11_RunLifecycle ==
  /\ [](pc \in {"stop_motor", "stop_lock", "stop_done"} =>
          doorRunning /\ doorRunElapsed >= doorRunTime)
  /\ [][(doorRunning /\ ~doorRunning') =>
          /\ pc = "stop_done"
          /\ pc' = "loop"
          /\ doorPin' = "LOW"
          /\ relayPowerPin' = "LOW"]_vars
  /\ [][(doorPin = "HIGH" /\ doorPin' = "LOW") => pc = "stop_motor"]_vars
  /\ (doorRunning ~> ~doorRunning)

\* stopDoorMotor() has just finished
C11_Witness ==
  /\ pc = "loop"
  /\ sinceStop = 0
  /\ ~doorRunning
  /\ doorPin = "LOW"
  /\ relayPowerPin = "LOW"

\* an actuation decision (automatic commit or manual trigger) has been made
Decided ==
  \/ pc \in {"start_unlock", "start_tone"}
  \/ doorRunning
  \/ sinceStop >= 0

\* C12 as claimed: once the first actuation decision has been made
\* currentLightState is LIGHT or DARK; NEUTRAL is committed only by the boot
\* seeding.
C12_CommittedNeverNeutral == Decided => currentLightState # "NEUTRAL"

\* C12 as amended: an automatic commit stores LIGHT or DARK, and after
\* setup() currentLightState becomes NEUTRAL only by a manual trigger.
C12_NeutralOnlyByOverride ==
  [][/\ (pc = "loop" /\ pc' = "start_unlock") => currentLightState' \in {"LIGHT", "DARK"}
     /\ (pc # "setup" /\ currentLightState # "NEUTRAL" /\ currentLightState' = "NEUTRAL")
          => (pc = "button" /\ pc' = "start_unlock")]_vars

\* a manual trigger after an earlier run has stored NEUTRAL
C12_Witness ==
  /\ ManualTriggered
  /\ sinceStop >= 0
  /\ lastSample \in {"LIGHT", "DARK"}
  /\ currentLightState = "NEUTRAL"

-----------------------------------------------------------------------------
(* newStateThreshold on its own, for configurations of the confirmation     *)
(* window (minutes) and the sampling interval (seconds)                    *)

ThresholdConfigs == (1 .. MaxWindowMinutes) \X (1 .. MaxDelaySeconds)

InitThreshold ==
  /\ InitGlobals
  /\ steady = "no"
  /\ button = "HIGH"
  /\ lockPos = lockDoorPos
  /\ InitQuery
  /\ calcArgs \in ThresholdConfigs
  /\ calcDone = FALSE
  /\ calcOut = 0

\* lines 57-58
ComputeThreshold ==
  /\ ~calcDone
  /\ calcDone' = TRUE
  /\ calcOut' = newStateThresholdOf(calcArgs[1], calcArgs[2])
  /\ UNCHANGED <<calcArgs, progVars, queryVars, steady>>

NextThreshold == ComputeThreshold

SpecThreshold == InitThreshold /\ [][NextThreshold]_vars

\* the least whole number not below a / b, for positive a and b
Ceiling(a, b) == (a + b - 1) \div b

\* C13: for every configuration with a positive window and interval,
\* newStateThreshold is ceil(window in ms / interval in ms) and at least 1.
C13_ThresholdIsCeiling ==
  calcDone =>
    /\ calcOut = Ceiling(calcArgs[1] * 60000, calcArgs[2] * 1000)
    /\ calcOut >= 1

\* C14: with the cooldown gate closed a pass takes no sample and leaves
\* newStateCount, currentLightState, lastLightCheck and the LEDs as they are
\* on the automatic path; newStateCount is 0 for as long as the gate is
\* closed, so the first sample after it opens counts from 0.
C14_GateClosedNoSample ==
  /\ [](doorWaitElapsed < minDoorWaitTime => newStateCount = 0)
  /\ [][(pc = "loop" /\ doorWaitElapsed < minDoorWaitTime) =>
          /\ sample' = "none"
          /\ UNCHANGED <<newStateCount, currentLightState, lightCheckElapsed, ledPins>>]_vars

\* a pass with the sampling interval over and the gate closed took no sample
C14_Witness ==
  /\ pc = "button"
  /\ ~doorRunning
  /\ sample = "none"
  /\ lightCheckElapsed >= lightCheckDelay
  /\ doorWaitElapsed < minDoorWaitTime

-----------------------------------------------------------------------------
(* getLightState() on its own, for every light value and for several pairs   *)
(* of thresholds                                                           *)

\* pairs of darkStateThreshold and lightStateThreshold: the configured one
\* and the closest pairs at both ends of the range
LightThresholds ==
  {<<darkStateThreshold, lightStateThreshold>>, <<0, 1>>, <<AnalogMax - 1, AnalogMax>>,
   <<darkStateThreshold, darkStateThreshold + 2>>}

InitLightState ==
  /\ InitGlobals
  /\ steady = "no"
  /\ button = "HIGH"
  /\ lockPos = lockDoorPos
  /\ InitQuery
  /\ calcArgs \in {<<v, t[1], t[2]>> : v \in 0 .. AnalogMax, t \in LightThresholds}
  /\ calcDone = FALSE
  /\ calcOut = "none"

\* lines 148-156
ComputeLightState ==
  /\ ~calcDone
  /\ calcDone' = TRUE
  /\ calcOut' = getLightStateOf(calcArgs[1], calcArgs[2], calcArgs[3])
  /\ UNCHANGED <<calcArgs, progVars, queryVars, steady>>

NextLightState == ComputeLightState

SpecLightState == InitLightState /\ [][NextLightState]_vars

\* C15: getLightState() changes nothing and returns DARK exactly for the
\* values up to and including darkStateThreshold, LIGHT exactly for the
\* values from lightStateThreshold on, and NEUTRAL exactly for the values
\* strictly between, for every value in 0 .. 1023.
C15_GetLightState ==
  [][(calcDone' /\ ~calcDone) =>
       /\ (calcOut' = "DARK") = (calcArgs[1] <= calcArgs[2])
       /\ (calcOut' = "LIGHT") = (calcArgs[1] >= calcArgs[3])
       /\ (calcOut' = "NEUTRAL") = (calcArgs[2] < calcArgs[1] /\ calcArgs[1] < calcArgs[3])
       /\ UNCHANGED <<calcArgs, progVars, queryVars, steady>>]_vars

\* the value at darkStateThreshold has been classified DARK
C15_Witness ==
  /\ calcDone
  /\ calcArgs = <<darkStateThreshold, darkStateThreshold, lightStateThreshold>>
  /\ calcOut = "DARK"

\* C16: doorRunning is set only after unlockDoor() and the tone, the relay
\* is switched on only after that and the motor only after the relay, with
\* the lock unlocked; the motor is switched off only with the lock still
\* unlocked, the lock is locked only with the motor off, and doorRunning is
\* cleared only after the lock is locked; the motor is never on with the lock
\* in the locked position.
C16_SequencerOrder ==
  /\ [](doorPin = "HIGH" => lockPos = unlockDoorPos)
  /\ [][(~doorRunning /\ doorRunning') =>
          (pc = "start_tone" /\ lockPos = unlockDoorPos /\ doorPin = "LOW"
           /\ relayPowerPin = "LOW")]_vars
  /\ [][(relayPowerPin = "LOW" /\ relayPowerPin' = "HIGH") =>
          (pc = "start_relay" /\ doorRunning /\ doorPin = "LOW")]_vars
  /\ [][(doorPin = "LOW" /\ doorPin' = "HIGH") =>
          (pc = "start_motor" /\ doorRunning /\ relayPowerPin = "HIGH"
           /\ lockPos = unlockDoorPos)]_vars
  /\ [][(doorPin = "HIGH" /\ doorPin' = "LOW") =>
          (pc = "stop_motor" /\ lockPos' = unlockDoorPos /\ doorRunning')]_vars
  /\ [][(pc # "setup" /\ lockPos # lockDoorPos /\ lockPos' = lockDoorPos) =>
          (pc = "stop_lock" /\ doorPin = "LOW" /\ doorRunning')]_vars
  /\ [][(doorRunning /\ ~doorRunning') =>
          (pc = "stop_done" /\ lockPos = lockDoorPos /\ doorPin = "LOW")]_vars

\* inside stopDoorMotor(): the motor is off, the lock not yet locked
C16_Witness ==
  /\ pc = "stop_lock"
  /\ doorRunning
  /\ doorPin = "LOW"
  /\ relayPowerPin = "LOW"
  /\ lockPos = unlockDoorPos

\* the LED lines that are HIGH
LedsOn == {l \in LEDs : ledPins[l] = "HIGH"}

\* C17: after setup() at most one LED line is HIGH; between two passes of
\* loop() exactly one is HIGH: RED iff the door is running, YELLOW iff the
\* door is idle and newStateCount > 0, GREEN iff the door is idle and
\* newStateCount = 0.
C17_StatusLeds ==
  /\ pc # "setup" => Cardinality(LedsOn) <= 1
  /\ pc \in {"wait", "loop"} =>
       /\ Cardinality(LedsOn) = 1
       /\ ("RED" \in LedsOn) = doorRunning
       /\ ("YELLOW" \in LedsOn) = (~doorRunning /\ newStateCount > 0)
       /\ ("GREEN" \in LedsOn) = (~doorRunning /\ newStateCount = 0)

\* after a door run, a disagreeing sample has been counted: YELLOW
C17_Witness ==
  /\ pc = "wait"
  /\ sinceStop >= 0
  /\ ~doorRunning
  /\ newStateCount > 0
  /\ LedsOn = {"YELLOW"}

-----------------------------------------------------------------------------
(* The time constants on their own, for configurations of hours and seconds *)

InitConstants ==
  /\ InitGlobals
  /\ steady = "no"
  /\ button = "HIGH"
  /\ lockPos = lockDoorPos
  /\ InitQuery
  /\ calcArgs \in (1 .. MaxWaitHours) \X (1 .. MaxDelaySeconds)
  /\ calcDone = FALSE
  /\ calcOut = <<>>

\* lines 37, 39 and 57
ComputeConstants ==
  /\ ~calcDone
  /\ calcDone' = TRUE
  /\ calcOut' = <<minDoorWaitProduct(calcArgs[1]), millisOfSeconds(calcArgs[2])>>
  /\ UNCHANGED <<calcArgs, progVars, queryVars, steady>>

NextConstants == ComputeConstants

SpecConstants == InitConstants /\ [][NextConstants]_vars

\* C18: with the configured hours and seconds, the product of line 39 is
\* minDoorWaitTimeHours * 3600000 ms, and doorRunTime and lightCheckDelay are
\* their seconds * 1000.
C18_ConstantsExact ==
  (/\ calcDone
   /\ calcArgs[1] = minDoorWaitTimeHours
   /\ calcArgs[2] \in {doorRunTimeSeconds, lightCheckDelaySeconds})
    => /\ calcOut[1] = calcArgs[1] * 3600000
       /\ calcOut[2] = calcArgs[2] * 1000

\* C19: in the first minDoorWaitTime after power-up no pass takes a sample
\* and no automatic commit is made, whatever the light; a door start in that
\* time comes from a manual trigger.
C19_BootGate ==
  /\ []((uptime < minDoorWaitTime /\ pc = "start_unlock") => ret = "poll")
  /\ [](uptime < minDoorWaitTime => (sample = "none" /\ lastSample = "none"))
  /\ [][(pc = "loop" /\ uptime < minDoorWaitTime) =>
          (sample' = "none" /\ pc' # "start_unlock")]_vars

\* a manual trigger within the first minDoorWaitTime after power-up
C19_Witness ==
  /\ ManualTriggered
  /\ uptime < minDoorWaitTime
  /\ uptime > lightCheckDelay

-----------------------------------------------------------------------------
(* The sketch with a button that may be down at power-up and is left alone  *)
(* once it has been released, and a light that settles: from some gap      *)
(* between two passes on, with the button up, every sample has the same    *)
(* class                                                                   *)

Settle ==
  /\ pc = "wait"
  /\ button = "HIGH"
  /\ steady = "no"
  /\ steady' \in {"LIGHT", "DARK"}
  /\ UNCHANGED <<progVars, queryVars, calcVars>>

SteadySample == steady # "no" => sample' \in {"none", steady}

ButtonLeftAlone == button = "HIGH" => button' = "HIGH"

NextSteady ==
  \/ Settle
  \/ setup
  \/ \E level \in Levels : Tick(level) /\ ButtonLeftAlone
  \/ LoopLight /\ SteadySample
  \/ LoopChecked
  \/ LoopButton
  \/ StartUnlock
  \/ StartTone
  \/ StartRelay
  \/ StartMotor
  \/ LoopPoll
  \/ StopMotor
  \/ StopLock
  \/ StopDone

\* time advances and loop() keeps being called
SpecSteady == Init /\ [][NextSteady]_vars /\ WF_vars(NextSteady)

====
